---- MODULE Spec2Model ----
(***************************************************************************)
(* The odin command line front end (src/cli/src/cli.ts) as a state machine.*)
(* One run of the process: the command line and the working directory are  *)
(* chosen in Init; the main script (isWizard check, program.parse) and the  *)
(* asynchronous continuations (prompts, collaborator promises) are actions. *)
(***************************************************************************)
EXTENDS Integers, Sequences, FiniteSets, TLC

(***************************************************************************)
(* JavaScript values.  A value carries its runtime type so that a string   *)
(* is never mistaken for a number or a boolean.  Strings that the code     *)
(* inspects are sequences of one-character strings.                         *)
(***************************************************************************)
Undef == [t |-> "undefined"]
Bool(b) == [t |-> "boolean", v |-> b]
Str(s) == [t |-> "string", v |-> s]
Num(n) == [t |-> "number", v |-> n]
NaN == [t |-> "NaN"]

\* JavaScript truthiness: `if (x)`, `!x`, `x || y`
Truthy(x) ==
  CASE x.t = "undefined" -> FALSE
    [] x.t = "boolean" -> x.v
    [] x.t = "string" -> x.v # <<>>
    [] x.t = "number" -> x.v # 0
    [] x.t = "NaN" -> FALSE

\* Boolean(x)
Boolean(x) == Truthy(x)

\* obj.key of a dynamic object: undefined when the key is absent
Get(obj, key) == IF key \in DOMAIN obj THEN obj[key] ELSE Undef

Digit == {"0", "1", "2", "3", "4", "5", "6", "7", "8", "9"}
Letter ==
  {"a", "b", "c", "d", "e", "f", "g", "h", "i", "j", "k", "l", "m",
   "n", "o", "p", "q", "r", "s", "t", "u", "v", "w", "x", "y", "z",
   "A", "B", "C", "D", "E", "F", "G", "H", "I", "J", "K", "L", "M",
   "N", "O", "P", "Q", "R", "S", "T", "U", "V", "W", "X", "Y", "Z"}

AllIn(s, chars) == \A i \in 1..Len(s) : s[i] \in chars

\* the decimal digit's value
DigitVal(c) ==
  CASE c = "0" -> 0 [] c = "1" -> 1 [] c = "2" -> 2 [] c = "3" -> 3
    [] c = "4" -> 4 [] c = "5" -> 5 [] c = "6" -> 6 [] c = "7" -> 7
    [] c = "8" -> 8 [] c = "9" -> 9

RECURSIVE DigitsValue(_)
DigitsValue(s) ==
  IF s = <<>> THEN 0
  ELSE 10 * DigitsValue(SubSeq(s, 1, Len(s) - 1)) + DigitVal(s[Len(s)])

RECURSIVE DigitPrefix(_)
DigitPrefix(s) ==
  IF s = <<>> \/ s[1] \notin Digit THEN <<>>
  ELSE <<s[1]>> \o DigitPrefix(Tail(s))

RECURSIVE SkipSpace(_)
SkipSpace(s) == IF s # <<>> /\ s[1] = " " THEN SkipSpace(Tail(s)) ELSE s

\* parseInt(string, 10): leading blanks, an optional sign, then the longest
\* run of digits; NaN when there is no digit
parseInt(x) ==
  LET s == SkipSpace(x.v)
      neg == s # <<>> /\ s[1] = "-"
      body == IF s # <<>> /\ s[1] \in {"-", "+"} THEN Tail(s) ELSE s
      ds == DigitPrefix(body)
  IN IF ds = <<>> THEN NaN
     ELSE Num(IF neg THEN 0 - DigitsValue(ds) ELSE DigitsValue(ds))

(***************************************************************************)
(* Strings the program names                                                *)
(***************************************************************************)
OdinJson == <<"o", "d", "i", "n", ".", "j", "s", "o", "n">>
ProxyDefault ==
  <<"h", "t", "t", "p", "s", ":", "/", "/", "e", "x", "a", "m", "p", "l", "e",
    ".", "c", "o", "m", ":", "8", "0", "8", "0">>
PortDefault == <<"8", "0", "8", "0">>
DefaultPort == 8080

(***************************************************************************)
(* Validators                                                               *)
(***************************************************************************)
\* fs.existsSync(path)
existsSync(path, files) == path \in files

\* name.match(/^[a-zA-Z0-9-]+$/) !== null
matchesNamePattern(s) == s # <<>> /\ AllIn(s, Letter \cup Digit \cup {"-"})

\* port.match(/^\d+$/) !== null
matchesPortPattern(s) == s # <<>> /\ AllIn(s, Digit)

\* the part after "://": a host, optionally followed by ":" and a port
IsHostPort(r) ==
  \/ r # <<>> /\ AllIn(r, (Letter \cup Digit \cup {".", "-"}))
  \/ \E j \in 2..(Len(r) - 1) :
       /\ r[j] = ":"
       /\ AllIn(SubSeq(r, 1, j - 1), (Letter \cup Digit \cup {".", "-"}))
       /\ AllIn(SubSeq(r, j + 1, Len(r)), Digit)

\* isValidProxyUrl on a string: protocol://hostname[:port]
MatchesProxyPattern(s) ==
  \E i \in 2..(Len(s) - 3) :
    /\ AllIn(SubSeq(s, 1, i - 1), Letter)
    /\ s[i] = ":" /\ s[i + 1] = "/" /\ s[i + 2] = "/"
    /\ IsHostPort(SubSeq(s, i + 3, Len(s)))

\* The outcomes of isValidProxyUrl(input).  It is declared for strings; what
\* it does with a non-string (commander hands `true` for a bare --proxy) is
\* not fixed by its contract: it rejects the value or throws.
isValidProxyUrl(input) ==
  IF input.t = "string"
  THEN {IF MatchesProxyPattern(input.v) THEN "true" ELSE "false"}
  ELSE {"false", "throws"}

(***************************************************************************)
(* Inputs of a run                                                          *)
(***************************************************************************)
\* the most answers a run's validators reject before the user gives a valid one
MaxRejected == 2

App == <<"a", "p", "p">>
M1 == <<"m", "-", "1">>
AB == <<"a", " ", "b">>
Url1 == <<"h", "t", "t", "p", ":", "/", "/", "m", "3", ":", "8", "0">>
Url2 == <<"h", "t", "t", "p", ":", "/", "/", "m", "3">>
BadUrl == <<"m", "3", ":", "8", "0">>
P3000 == <<"3", "0", "0", "0">>
P80a == <<"8", "0", "a">>

\* a boolean flag of commander: undefined unless given
Flag == {Undef, Bool(TRUE)}
\* --proxy [url]: undefined, `true` when given bare, else the string given
ProxyFlagValues == {Undef, Bool(TRUE), Str(<<>>), Str(Url1), Str(Url2), Str(BadUrl)}
\* --port <port>: undefined, else the string given
PortFlagValues == {Undef, Str(<<>>), Str(P3000), Str(P80a), Str(<<"0">>)}

NewFlags ==
  [proxy : ProxyFlagValues, material : Flag, soho : Flag, angular : Flag,
   install : Flag, skipGit : Flag]
NoNewFlags ==
  [proxy |-> Undef, material |-> Undef, soho |-> Undef, angular |-> Undef,
   install |-> Undef, skipGit |-> Undef]
ServeFlags == [port : PortFlagValues, multiTenant : Flag, ionApi : Flag]
NoFlags == [none |-> Undef]

KnownCommands == {"new", "serve", "build", "set", "login"}

CommandLines ==
  \* odin
  {[argc |-> 0, command |-> "", positional |-> <<>>, options |-> NoFlags]}
  \cup
  \* odin new <name> [flags]
  {[argc |-> 2, command |-> "new", positional |-> <<Str(n)>>, options |-> o] :
     n \in {App, M1, AB}, o \in NewFlags}
  \cup
  \* odin new [flags] and odin new ""
  {[argc |-> 1, command |-> "new", positional |-> <<>>, options |-> NoNewFlags],
   [argc |-> 4, command |-> "new", positional |-> <<Str(<<>>)>>,
    options |-> [NoNewFlags EXCEPT !.soho = Bool(TRUE), !.proxy = Str(BadUrl)]]}
  \cup
  {[argc |-> 1, command |-> "serve", positional |-> <<>>, options |-> o] :
     o \in ServeFlags}
  \cup
  {[argc |-> 1, command |-> c, positional |-> <<>>, options |-> NoFlags] :
     c \in {"build", "login", "frobnicate", "News", "--help", "--version", "-x"}}
  \cup
  {[argc |-> 3, command |-> "set", positional |-> <<k, "value">>, options |-> NoFlags] :
     k \in {"name", "m3-proxy", "colour"}}

\* what the working directory may hold
WorkingDirs == SUBSET {OdinJson, App}

(***************************************************************************)
(* State                                                                    *)
(***************************************************************************)
VARIABLES
  argv,      \* the parsed command line
  fs,        \* the paths that exist in the working directory
  pc,        \* the main script: "start", "parse", "returned", "exited"
  task,      \* the asynchronous function that is suspended, or "none"/"finished"
  prompt,    \* the inquirer.prompt call in progress: its questions and position
  answers,   \* the answers the prompt in progress has collected
  commandAnswers, \* the answers of inquireCommand's prompt, once it returned
  asked,     \* the questions displayed so far, in order
  rejections,\* the answers validators rejected: the question and the message
  calls,     \* the collaborator calls made so far, in order
  pending,   \* the collaborators whose promise has not settled
  settled,   \* the collaborator calls that have ended, with their outcome
  out,       \* the lines written to stdout/stderr, in order
  exitCode   \* the process's exit code once pc = "exited"

vars ==
  <<argv, fs, pc, task, prompt, answers, commandAnswers, asked, rejections,
    calls, pending, settled, out, exitCode>>

NoPrompt == [questions |-> <<>>, next |-> 1]
\* an object with no keys
EmptyObject == [k \in {} |-> Undef]

Init ==
  /\ argv \in CommandLines
  /\ fs \in WorkingDirs
  /\ pc = "start"
  /\ task = "none"
  /\ prompt = NoPrompt
  /\ answers = EmptyObject
  /\ commandAnswers = EmptyObject
  /\ asked = <<>>
  /\ rejections = <<>>
  /\ calls = <<>>
  /\ pending = {}
  /\ settled = <<>>
  /\ out = <<>>
  /\ exitCode = 0

(***************************************************************************)
(* Output                                                                   *)
(***************************************************************************)
Line(fd, tag, text) == [fd |-> fd, tag |-> tag, text |-> text]
\* console.error('ERROR:', message)
ErrorLine(message) == Line("stderr", "ERROR:", message)
\* program.outputHelp()
HelpText == Line("stdout", "help", "")
\* console.error(error): the error a collaborator raised
ErrorDetail == Line("stderr", "", "<error>")
Log(text) == Line("stdout", "", text)

\* the lines exit(message, outputHelp) writes
exitLines(message, outputHelp) ==
  (IF message # "" THEN <<ErrorLine(message)>> ELSE <<>>)
  \o (IF outputHelp THEN <<HelpText>> ELSE <<>>)

\* exit(message, outputHelp) after the lines o: process.exit(1)
exit(o, message, outputHelp) ==
  /\ out' = o \o exitLines(message, outputHelp)
  /\ exitCode' = 1
  /\ pc' = "exited"

\* process.exit(0) of commander's --help and --version
exitZero(o) ==
  /\ out' = o
  /\ exitCode' = 0
  /\ pc' = "exited"

\* A promise rejected with no handler.  What the runtime does is set by its
\* version: a warning and the run goes on, or the error is thrown and the
\* process ends with code 1.
unhandledRejection(o) ==
  \/ /\ out' = o \o <<Line("stderr", "UnhandledPromiseRejectionWarning:", "<error>")>>
     /\ task' = "finished"
     /\ pc' = "returned"
     /\ UNCHANGED exitCode
  \/ /\ out' = o \o <<Line("stderr", "Uncaught", "<error>")>>
     /\ exitCode' = 1
     /\ pc' = "exited"
     /\ UNCHANGED task

\* a collaborator is called: its promise is pending
call(fn, args) ==
  /\ calls' = Append(calls, [fn |-> fn, args |-> args])
  /\ pending' = pending \cup {fn}

\* a pending collaborator's promise settles
settle(fn, ok) ==
  /\ fn \in pending
  /\ pending' = pending \ {fn}
  /\ settled' = Append(settled, [fn |-> fn, ok |-> ok])

(***************************************************************************)
(* Option resolution                                                        *)
(***************************************************************************)
\* the style resolution with the two checks in the other order
newActionStyleSohoFirst(options) ==
  IF Truthy(options.soho) THEN "soho"
  ELSE IF Truthy(options.material) THEN "material"
  ELSE "none"

\* new action: the style chosen by --material / --soho
newActionStyle(options) ==
  IF Truthy(options.material) THEN "material"
  ELSE IF Truthy(options.soho) THEN "soho"
  ELSE "none"

\* newOptions with the --skip-git test inverted
newActionOptionsGitInverted(projectName, options) ==
  LET base == [name |-> projectName, style |-> newActionStyle(options),
               git |-> Bool(Truthy(options.skipGit))]
      withProxy ==
        IF Truthy(options.proxy)
        THEN base @@ [proxy |-> [target |-> options.proxy]]
        ELSE base
      withAngular ==
        IF Truthy(options.angular)
        THEN withProxy @@ [angular |-> Bool(TRUE)]
        ELSE withProxy
  IN IF Truthy(options.install)
     THEN withAngular @@ [install |-> Bool(TRUE)]
     ELSE withAngular

\* new action: newOptions as built from the flags, once the proxy passed
newActionOptions(projectName, options) ==
  LET base == [name |-> projectName, style |-> newActionStyle(options),
               git |-> Bool(~Truthy(options.skipGit))]
      withProxy ==
        IF Truthy(options.proxy)
        THEN base @@ [proxy |-> [target |-> options.proxy]]
        ELSE base
      withAngular ==
        IF Truthy(options.angular)
        THEN withProxy @@ [angular |-> Bool(TRUE)]
        ELSE withProxy
  IN IF Truthy(options.install)
     THEN withAngular @@ [install |-> Bool(TRUE)]
     ELSE withAngular

\* the serve options with ionApi tied to multiTenant, as the wizard ties it
serveActionOptionsTied(options) ==
  [port |-> IF Truthy(options.port) THEN options.port ELSE Num(DefaultPort),
   multiTenant |-> Bool(Boolean(options.multiTenant)),
   ionApi |-> Bool(Boolean(options.multiTenant) /\ Boolean(options.ionApi))]

\* serve action: the options handed to wrapServe
serveActionOptions(options) ==
  [port |-> IF Truthy(options.port) THEN options.port ELSE Num(DefaultPort),
   multiTenant |-> Bool(Boolean(options.multiTenant)),
   ionApi |-> Bool(Boolean(options.ionApi))]

\* newProjectOptions with the style left out
inquireNewOptionsNoStyle(a) ==
  [name |-> Get(a, "projectName"),
   angular |-> Bool(Get(a, "framework") = "angular"),
   proxy |-> [target |-> Get(a, "proxy")],
   install |-> Get(a, "install"),
   git |-> Get(a, "git")]

\* inquireNewProject: newProjectOptions from the answers
inquireNewOptions(a) ==
  [name |-> Get(a, "projectName"),
   style |-> Get(a, "style"),
   angular |-> Bool(Get(a, "framework") = "angular"),
   proxy |-> [target |-> Get(a, "proxy")],
   install |-> Get(a, "install"),
   git |-> Get(a, "git")]

\* inquireServeProject: the options from the answers
inquireServeOptions(a) ==
  [port |-> parseInt(Get(a, "port")),
   multiTenant |-> Bool(Boolean(Get(a, "multiTenant"))),
   ionApi |-> Bool(Boolean(Get(a, "ionApi")))]

(***************************************************************************)
(* Questions                                                                *)
(***************************************************************************)
CommandQuestions == <<"command">>
\* the new sequence with the proxy question left out of the list
NewQuestionsNoProxy == <<"projectName", "framework", "style", "git", "install">>
NewQuestions == <<"projectName", "framework", "style", "proxy", "git", "install">>
ServeQuestions == <<"port", "multiTenant", "ionApi">>

\* no question has a `when`
whenMissing(q, previousAnswers) == TRUE

\* a question's `when`: only ionQuestion has one
when(q, previousAnswers) ==
  IF q = "ionApi" THEN Boolean(Get(previousAnswers, "multiTenant")) ELSE TRUE

\* what the user may enter at a question
Inputs(q) ==
  CASE q = "command" -> {"new", "serve", "build"}
    [] q = "projectName" -> {Str(App), Str(M1), Str(AB), Str(<<>>)}
    [] q = "framework" -> {"angular", "none"}
    [] q = "style" -> {"soho", "material", "none"}
    [] q = "proxy" -> {Str(<<>>), Str(Url2), Str(BadUrl)}
    [] q = "port" -> {Str(<<>>), Str(P3000), Str(P80a)}
    [] q \in {"git", "install", "multiTenant", "ionApi"} -> {Bool(TRUE), Bool(FALSE)}

\* an input question's default stands in for an empty entry
inputValue(q, raw) ==
  CASE q = "proxy" /\ raw.v = <<>> -> Str(ProxyDefault)
    [] q = "port" /\ raw.v = <<>> -> Str(PortDefault)
    [] OTHER -> raw

\* a question's `validate`: "true", or the message shown with the question
validate(q, value, files) ==
  CASE q = "projectName" ->
         IF ~matchesNamePattern(value.v)
         THEN "The project name can only have letters, numbers and dashes"
         ELSE IF existsSync(value.v, files) THEN "The directory already exists."
         ELSE "true"
    [] q = "proxy" ->
         IF "true" \notin isValidProxyUrl(value)
         THEN "The URL must look like the following: protocol://hostname:port"
         ELSE "true"
    [] q = "port" ->
         IF ~matchesPortPattern(value.v)
         THEN "The port must be a number, e.g 8080"
         ELSE "true"
    [] OTHER -> "true"

\* inquirer.prompt: the first question from position i on whose `when` holds
RECURSIVE NextQuestion(_, _, _)
NextQuestion(qs, i, a) ==
  IF i > Len(qs) \/ when(qs[i], a) THEN i ELSE NextQuestion(qs, i + 1, a)

PromptDone == prompt.next > Len(prompt.questions)

\* inquirer.prompt(qs) is called by the function fn, which suspends
beginPrompt(fn, qs) ==
  LET first == NextQuestion(qs, 1, EmptyObject)
  IN /\ task' = fn
     /\ prompt' = [questions |-> qs, next |-> first]
     /\ answers' = EmptyObject
     /\ asked' = asked \o (IF first <= Len(qs) THEN <<qs[first]>> ELSE <<>>)

(***************************************************************************)
(* Dispatch wrappers                                                        *)
(***************************************************************************)
\* wrapServe(options), entered after the lines o, up to its await
wrapServe(options, o) ==
  IF ~existsSync(OdinJson, fs)
  THEN /\ exit(o, "Could not find an Odin configuration file.", FALSE)
       /\ UNCHANGED <<calls, pending, task>>
  ELSE /\ out' = o \o <<Log("Starting Dev Server...")>>
       /\ call("serveProject", <<options>>)
       /\ task' = "wrapServe"
       /\ pc' = "returned"
       /\ UNCHANGED exitCode

\* wrapNew(options), entered after the lines o, up to its await
wrapNew(options, o) ==
  /\ out' = o
  /\ call("newProject", <<options>>)
  /\ task' = "wrapNew"
  /\ pc' = "returned"
  /\ UNCHANGED exitCode

(***************************************************************************)
(* The main script                                                          *)
(***************************************************************************)
\* the wizard test counting one token too few
isWizardOffByOne == argv.argc <= 1

isWizard == argv.argc = 0

\* const isWizard = ...; if (isWizard) { inquireCommand(); }
\* inquireCommand runs up to its first await and is not awaited
Main ==
  /\ pc = "start"
  /\ pc' = "parse"
  /\ IF isWizard
     THEN beginPrompt("inquireCommand", CommandQuestions)
     ELSE UNCHANGED <<task, prompt, answers, asked>>
  /\ UNCHANGED <<argv, fs, commandAnswers, rejections, calls, pending, settled,
                 out, exitCode>>

\* program.parse with no argument running build as a default command
parseDefaultCommand ==
  /\ pc = "parse"
  /\ argv.command = ""
  /\ call("buildProject", <<>>)
  /\ pc' = "returned"
  /\ UNCHANGED <<argv, fs, task, prompt, answers, commandAnswers, asked,
                 rejections, settled, out, exitCode>>

\* program.parse with no argument: no command runs
parseNothing ==
  /\ pc = "parse"
  /\ argv.command = ""
  /\ pc' = "returned"
  /\ UNCHANGED <<argv, fs, task, prompt, answers, commandAnswers, asked,
                 rejections, calls, pending, settled, out, exitCode>>

\* program.parse with --help: commander prints the help and exits with 0
helpOption ==
  /\ pc = "parse"
  /\ argv.command = "--help"
  /\ exitZero(out \o <<HelpText>>)
  /\ UNCHANGED <<argv, fs, task, prompt, answers, commandAnswers, asked,
                 rejections, calls, pending, settled>>

\* program.parse with --version: .version(versionNumber) prints it, exits with 0
versionOption ==
  /\ pc = "parse"
  /\ argv.command = "--version"
  /\ exitZero(out \o <<Log("<versionNumber>")>>)
  /\ UNCHANGED <<argv, fs, task, prompt, answers, commandAnswers, asked,
                 rejections, calls, pending, settled>>

\* program.parse with an option the program does not declare: commander
\* reports it and exits with 1, without the help
unknownOption ==
  /\ pc = "parse"
  /\ argv.command = "-x"
  /\ out' = out \o <<Line("stderr", "error:", "unknown option")>>
  /\ exitCode' = 1
  /\ pc' = "exited"
  /\ UNCHANGED <<argv, fs, task, prompt, answers, commandAnswers, asked,
                 rejections, calls, pending, settled>>

\* the first tokens that are options, not command names
OptionTokens == {"--help", "--version", "-x"}

\* whether the first token is dispatched to the command:* listener
IsUnknownCommand(command) ==
  command \notin KnownCommands \cup OptionTokens \cup {""}

\* the command:* listener leaving the help out
unknownCommandNoHelp ==
  /\ pc = "parse"
  /\ IsUnknownCommand(argv.command)
  /\ exit(out, "Unknown command", FALSE)
  /\ UNCHANGED <<argv, fs, task, prompt, answers, commandAnswers, asked,
                 rejections, calls, pending, settled>>

\* program.on('command:*', ...)
unknownCommand ==
  /\ pc = "parse"
  /\ IsUnknownCommand(argv.command)
  /\ exit(out, "Unknown command", TRUE)
  /\ UNCHANGED <<argv, fs, task, prompt, answers, commandAnswers, asked,
                 rejections, calls, pending, settled>>

projectName == IF Len(argv.positional) >= 1 THEN argv.positional[1] ELSE Undef

\* command('new [projectName]').action
newAction ==
  /\ pc = "parse"
  /\ argv.command = "new"
  /\ IF ~Truthy(projectName)
     THEN /\ beginPrompt("inquireNewProject", NewQuestions)
          /\ pc' = "returned"
          /\ UNCHANGED <<calls, pending, out, exitCode>>
     ELSE IF Truthy(argv.options.proxy)
     THEN \E valid \in isValidProxyUrl(argv.options.proxy) :
            CASE valid = "false" ->
                   /\ exit(out, "Proxy url is invalid. It should be of the format: protocol://hostname:port", TRUE)
                   /\ UNCHANGED <<task, calls, pending, prompt, answers, asked>>
              [] valid = "throws" ->
                   /\ unhandledRejection(out)
                   /\ UNCHANGED <<calls, pending, prompt, answers, asked>>
              [] valid = "true" ->
                   /\ wrapNew(newActionOptions(projectName, argv.options), out)
                   /\ UNCHANGED <<prompt, answers, asked>>
     ELSE /\ wrapNew(newActionOptions(projectName, argv.options), out)
          /\ UNCHANGED <<prompt, answers, asked>>
  /\ UNCHANGED <<argv, fs, commandAnswers, rejections, settled>>

\* command('serve').action
serveAction ==
  /\ pc = "parse"
  /\ argv.command = "serve"
  /\ wrapServe(serveActionOptions(argv.options), out)
  /\ UNCHANGED <<argv, fs, prompt, answers, commandAnswers, asked, rejections,
                 settled>>

\* the build action without its check of odin.json
buildActionUnchecked ==
  /\ pc = "parse"
  /\ argv.command = "build"
  /\ out' = out \o <<Log("Building project...")>>
  /\ call("buildProject", <<>>)
  /\ task' = "build"
  /\ pc' = "returned"
  /\ UNCHANGED <<argv, fs, prompt, answers, commandAnswers, asked, rejections,
                 settled, exitCode>>

\* command('build').action
buildAction ==
  /\ pc = "parse"
  /\ argv.command = "build"
  /\ IF ~existsSync(OdinJson, fs)
     THEN /\ exit(out, "Could not find an Odin configuration file.", FALSE)
          /\ UNCHANGED <<calls, pending, task>>
     ELSE /\ out' = out \o <<Log("Building project...")>>
          /\ call("buildProject", <<>>)
          /\ task' = "build"
          /\ pc' = "returned"
          /\ UNCHANGED exitCode
  /\ UNCHANGED <<argv, fs, prompt, answers, commandAnswers, asked, rejections,
                 settled>>

\* command('set <key> <value>').action: setConfiguration returns or throws
setAction ==
  /\ pc = "parse"
  /\ argv.command = "set"
  /\ calls' = Append(calls, [fn |-> "setConfiguration", args |-> argv.positional])
  /\ \E throws \in BOOLEAN :
       /\ settled' = Append(settled, [fn |-> "setConfiguration", ok |-> ~throws])
       /\ IF throws
          THEN exit(out \o <<ErrorDetail>>, "Configuration failed", FALSE)
          ELSE /\ pc' = "returned"
               /\ UNCHANGED <<out, exitCode>>
  /\ UNCHANGED <<argv, fs, task, prompt, answers, commandAnswers, asked,
                 rejections, pending>>

\* command('login').action, up to its await
loginAction ==
  /\ pc = "parse"
  /\ argv.command = "login"
  /\ out' = out \o <<Log("Logging in to the configured environment. A separate browser window will open with the login screen.")>>
  /\ call("login", <<>>)
  /\ task' = "login"
  /\ pc' = "returned"
  /\ UNCHANGED <<argv, fs, prompt, answers, commandAnswers, asked, rejections,
                 settled, exitCode>>

(***************************************************************************)
(* Prompts                                                                  *)
(***************************************************************************)
Prompting ==
  /\ pc = "returned"
  /\ task \in {"inquireCommand", "inquireNewProject", "inquireServeProject"}
  /\ ~PromptDone

\* the prompt keeping an entry without asking the question's validate
promptAcceptUnchecked ==
  /\ Prompting
  /\ LET q == prompt.questions[prompt.next]
     IN \E raw \in Inputs(q) :
          LET value == inputValue(q, raw)
              kept == answers @@ (q :> value)
              nxt == NextQuestion(prompt.questions, prompt.next + 1, kept)
          IN /\ answers' = kept
             /\ prompt' = [prompt EXCEPT !.next = nxt]
             /\ asked' = asked \o (IF nxt <= Len(prompt.questions)
                                    THEN <<prompt.questions[nxt]>> ELSE <<>>)
  /\ UNCHANGED <<argv, fs, pc, task, commandAnswers, rejections, calls, pending,
                 settled, out, exitCode>>

\* the user's entry passes the question's validate: the answer is kept and
\* the next question whose `when` holds is displayed
promptAccept ==
  /\ Prompting
  /\ LET q == prompt.questions[prompt.next]
     IN \E raw \in Inputs(q) :
          LET value == inputValue(q, raw)
              kept == answers @@ (q :> value)
              nxt == NextQuestion(prompt.questions, prompt.next + 1, kept)
          IN /\ validate(q, value, fs) = "true"
             /\ answers' = kept
             /\ prompt' = [prompt EXCEPT !.next = nxt]
             /\ asked' = asked \o (IF nxt <= Len(prompt.questions)
                                    THEN <<prompt.questions[nxt]>> ELSE <<>>)
  /\ UNCHANGED <<argv, fs, pc, task, commandAnswers, rejections, calls, pending,
                 settled, out, exitCode>>

\* the user's entry fails the question's validate: the message is shown and
\* the same question waits for another entry
promptReject ==
  /\ Prompting
  /\ Len(rejections) < MaxRejected
  /\ LET q == prompt.questions[prompt.next]
     IN \E raw \in Inputs(q) :
          LET value == inputValue(q, raw)
              verdict == validate(q, value, fs)
          IN /\ verdict # "true"
             /\ rejections' = Append(rejections, [question |-> q, message |-> verdict])
             /\ out' = out \o <<Line("stdout", ">>", verdict)>>
  /\ UNCHANGED <<argv, fs, pc, task, prompt, answers, commandAnswers, asked,
                 calls, pending, settled, exitCode>>

\* the switch with the 'serve' case running the new sequence
inquireCommandThenWrongBranch ==
  /\ pc = "returned"
  /\ task = "inquireCommand"
  /\ PromptDone
  /\ commandAnswers' = answers
  /\ CASE answers["command"] \in {"new", "serve"} ->
            /\ beginPrompt("inquireNewProject", NewQuestions)
            /\ UNCHANGED <<calls, pending>>
       [] answers["command"] = "build" ->
            /\ call("buildProject", <<>>)
            /\ task' = "buildDetached"
            /\ UNCHANGED <<prompt, answers, asked>>
  /\ UNCHANGED <<argv, fs, pc, rejections, settled, out, exitCode>>

\* inquireCommand after its prompt: the switch on commandAnswers.command
inquireCommandThen ==
  /\ pc = "returned"
  /\ task = "inquireCommand"
  /\ PromptDone
  /\ commandAnswers' = answers
  /\ CASE answers["command"] = "new" ->
            /\ beginPrompt("inquireNewProject", NewQuestions)
            /\ UNCHANGED <<calls, pending>>
       [] answers["command"] = "serve" ->
            /\ beginPrompt("inquireServeProject", ServeQuestions)
            /\ UNCHANGED <<calls, pending>>
       [] answers["command"] = "build" ->
            /\ call("buildProject", <<>>)
            /\ task' = "buildDetached"
            /\ UNCHANGED <<prompt, answers, asked>>
  /\ UNCHANGED <<argv, fs, pc, rejections, settled, out, exitCode>>

\* inquireNewProject after its prompt
inquireNewProjectThen ==
  /\ pc = "returned"
  /\ task = "inquireNewProject"
  /\ PromptDone
  /\ wrapNew(inquireNewOptions(answers), out)
  /\ UNCHANGED <<argv, fs, prompt, answers, commandAnswers, asked, rejections,
                 settled>>

\* inquireServeProject after its prompt
inquireServeProjectThen ==
  /\ pc = "returned"
  /\ task = "inquireServeProject"
  /\ PromptDone
  /\ wrapServe(inquireServeOptions(answers), out)
  /\ UNCHANGED <<argv, fs, prompt, answers, commandAnswers, asked, rejections,
                 settled>>

(***************************************************************************)
(* Collaborator promises settling                                           *)
(***************************************************************************)
\* wrapNew after `await newProject(options)` fulfilled
wrapNewResolved ==
  /\ pc = "returned" /\ task = "wrapNew"
  /\ settle("newProject", TRUE)
  /\ out' = out \o <<Log("Done!"),
                     Log("To continue with the new project, install dependencies and start the server:"),
                     Log("cd <name>"), Log("npm install"), Log("odin serve")>>
  /\ task' = "finished"
  /\ UNCHANGED <<argv, fs, pc, prompt, answers, commandAnswers, asked,
                 rejections, calls, exitCode>>

\* wrapNew's catch
wrapNewRejected ==
  /\ pc = "returned" /\ task = "wrapNew"
  /\ settle("newProject", FALSE)
  /\ exit(out \o <<ErrorDetail>>, "Failed to create new project", FALSE)
  /\ UNCHANGED <<argv, fs, task, prompt, answers, commandAnswers, asked,
                 rejections, calls>>

\* wrapServe after `await serveProject(options)` fulfilled
wrapServeResolved ==
  /\ pc = "returned" /\ task = "wrapServe"
  /\ settle("serveProject", TRUE)
  /\ task' = "finished"
  /\ UNCHANGED <<argv, fs, pc, prompt, answers, commandAnswers, asked,
                 rejections, calls, out, exitCode>>

\* wrapServe's catch
wrapServeRejected ==
  /\ pc = "returned" /\ task = "wrapServe"
  /\ settle("serveProject", FALSE)
  /\ exit(out \o <<ErrorDetail>>, "Serving was aborted because of an error", FALSE)
  /\ UNCHANGED <<argv, fs, task, prompt, answers, commandAnswers, asked,
                 rejections, calls>>

\* build action: buildProject().then(...)
buildResolved ==
  /\ pc = "returned" /\ task = "build"
  /\ settle("buildProject", TRUE)
  /\ out' = out \o <<Log("Project built successfully")>>
  /\ task' = "finished"
  /\ UNCHANGED <<argv, fs, pc, prompt, answers, commandAnswers, asked,
                 rejections, calls, exitCode>>

\* build action: .catch(error => console.error('Build failed:', error))
buildRejected ==
  /\ pc = "returned" /\ task = "build"
  /\ settle("buildProject", FALSE)
  /\ out' = out \o <<Line("stderr", "Build failed:", "<error>")>>
  /\ task' = "finished"
  /\ UNCHANGED <<argv, fs, pc, prompt, answers, commandAnswers, asked,
                 rejections, calls, exitCode>>

\* inquireCommand's `buildProject();`: nothing waits for the promise
detachedBuildResolved ==
  /\ pc = "returned" /\ task = "buildDetached"
  /\ settle("buildProject", TRUE)
  /\ task' = "finished"
  /\ UNCHANGED <<argv, fs, pc, prompt, answers, commandAnswers, asked,
                 rejections, calls, out, exitCode>>

\* inquireCommand's `buildProject();` rejected: no handler is attached
detachedBuildRejected ==
  /\ pc = "returned" /\ task = "buildDetached"
  /\ settle("buildProject", FALSE)
  /\ unhandledRejection(out)
  /\ UNCHANGED <<argv, fs, prompt, answers, commandAnswers, asked, rejections,
                 calls>>

\* login action after `await login()` fulfilled
loginResolved ==
  /\ pc = "returned" /\ task = "login"
  /\ settle("login", TRUE)
  /\ out' = out \o <<Log("Done! You can now start the development server with 'odin serve --multi-tenant'")>>
  /\ task' = "finished"
  /\ UNCHANGED <<argv, fs, pc, prompt, answers, commandAnswers, asked,
                 rejections, calls, exitCode>>

\* login action: `await login()` rejected, outside any try
loginRejected ==
  /\ pc = "returned" /\ task = "login"
  /\ settle("login", FALSE)
  /\ unhandledRejection(out)
  /\ UNCHANGED <<argv, fs, prompt, answers, commandAnswers, asked, rejections,
                 calls>>

\* nothing is left to run: the process ends with its exit code, 0
processExit ==
  /\ pc = "returned"
  /\ task \in {"none", "finished"}
  /\ pending = {}
  /\ pc' = "exited"
  /\ UNCHANGED <<argv, fs, task, prompt, answers, commandAnswers, asked,
                 rejections, calls, pending, settled, out, exitCode>>

Next ==
  \/ Main
  \/ parseNothing
  \/ helpOption
  \/ versionOption
  \/ unknownOption
  \/ unknownCommand
  \/ newAction
  \/ serveAction
  \/ buildAction
  \/ setAction
  \/ loginAction
  \/ promptAccept
  \/ promptReject
  \/ inquireCommandThen
  \/ inquireNewProjectThen
  \/ inquireServeProjectThen
  \/ wrapNewResolved
  \/ wrapNewRejected
  \/ wrapServeResolved
  \/ wrapServeRejected
  \/ buildResolved
  \/ buildRejected
  \/ detachedBuildResolved
  \/ detachedBuildRejected
  \/ loginResolved
  \/ loginRejected
  \/ processExit

Spec == Init /\ [][Next]_vars

(***************************************************************************)
(* Properties                                                               *)
(***************************************************************************)
Exited == pc = "exited"
Printed(line) == \E i \in 1..Len(out) : out[i] = line
HelpPrinted == Printed(HelpText)
Invoked(fn) == \E i \in 1..Len(calls) : calls[i].fn = fn
Failed(fn) == \E i \in 1..Len(settled) : settled[i].fn = fn /\ ~settled[i].ok
Collaborators == {"newProject", "serveProject", "buildProject", "login", "setConfiguration"}
FailureSummaries ==
  {"Failed to create new project", "Serving was aborted because of an error",
   "Configuration failed", "Build failed", "Login failed"}
\* the error a collaborator raised is on stderr, with or without a prefix
ErrorDetailPrinted ==
  \E i \in 1..Len(out) : out[i].fd = "stderr" /\ out[i].text = "<error>"
SummaryPrinted == \E m \in FailureSummaries : Printed(ErrorLine(m))
MarkerMissing == OdinJson \notin fs
DirectNew == argv.command = "new" /\ Truthy(projectName)

\* C1: whenever a collaborator call has failed, on any path, the run ends
\* with the error detail and a fixed failure summary printed, no help text,
\* and exit code 1.
C1_CollaboratorFailureExitsOne ==
  \A fn \in Collaborators :
    (Failed(fn) /\ (Exited \/ task = "finished")) =>
      /\ Exited
      /\ exitCode = 1
      /\ ErrorDetailPrinted
      /\ SummaryPrinted
      /\ ~HelpPrinted

\* C2: `odin build` without odin.json never invokes buildProject and never
\* returns from the action: the run ends with exit code 1, the error printed
\* and no help text.
C2_BuildWithoutMarker ==
  (argv.command = "build" /\ MarkerMissing) =>
    /\ ~Invoked("buildProject")
    /\ pc # "returned"
    /\ Exited =>
         /\ exitCode = 1
         /\ Printed(ErrorLine("Could not find an Odin configuration file."))
         /\ ~HelpPrinted

C2_Witness == argv.command = "build" /\ MarkerMissing /\ Exited

\* C3: on every path, direct or wizard, serveProject and buildProject are
\* never invoked while odin.json is missing, and the run ends with exit code
\* 1 and no help text.
C3_NoServeOrBuildWithoutMarker ==
  MarkerMissing =>
    /\ ~Invoked("serveProject")
    /\ ~Invoked("buildProject")
    /\ (Exited /\ (argv.command \in {"serve", "build"}
                   \/ ("command" \in DOMAIN commandAnswers
                       /\ commandAnswers["command"] \in {"serve", "build"}))) =>
         (exitCode = 1 /\ ~HelpPrinted)

\* C4 as stated: for any first token that is not a known command the run
\* prints an error and the help text, exits with 1 and invokes nothing.
C4_AnyOtherTokenFails ==
  (~isWizard /\ argv.command \notin KnownCommands) =>
    /\ calls = <<>>
    /\ pc # "returned"
    /\ Exited =>
         /\ exitCode = 1
         /\ Printed(ErrorLine("Unknown command"))
         /\ HelpPrinted

\* C4 amended: for any first token that is neither a known command nor an
\* option (a token starting with "-"), the run prints an error and the help
\* text, exits with 1 and invokes nothing.
C4_UnknownCommandFails ==
  (~isWizard /\ argv.command \notin KnownCommands /\ argv.command \notin OptionTokens) =>
    /\ calls = <<>>
    /\ pc # "returned"
    /\ Exited =>
         /\ exitCode = 1
         /\ Printed(ErrorLine("Unknown command"))
         /\ HelpPrinted

C4_Witness == argv.command = "frobnicate" /\ Exited /\ HelpPrinted

\* C5: in `odin new <name> --proxy <url>`, a proxy value that fails
\* isValidProxyUrl is reported with the help text, the run exits with 1 and
\* newProject is never invoked.
C5_InvalidProxyRejected ==
  (DirectNew /\ argv.options.proxy.t = "string"
     /\ "true" \notin isValidProxyUrl(argv.options.proxy)) =>
    /\ ~Invoked("newProject")
    /\ pc # "returned"
    /\ Exited =>
         /\ exitCode = 1
         /\ HelpPrinted
         /\ \E i \in 1..Len(out) : out[i].tag = "ERROR:"

ServeWizard == prompt.questions = ServeQuestions
Answered(q) == q \in DOMAIN answers
Asked(q) == \E i \in 1..Len(asked) : asked[i] = q
IsPrefix(a, b) == Len(a) <= Len(b) /\ SubSeq(b, 1, Len(a)) = a
\* the questions of the serve sequence displayed so far
ServeAsked == SelectSeq(asked, LAMBDA q : q \in {"port", "multiTenant", "ionApi"})

\* C6: the serve wizard asks port, multi-tenant, ion-api in that order, and
\* the ion-api question is asked iff multi-tenant was answered true: answered
\* false, the answers hold no ionApi key; answered true, the ion-api question
\* is asked and its answer is part of the answers the prompt returns.
C6_IonAskedIffMultiTenant ==
  ServeWizard =>
    /\ IsPrefix(ServeAsked, <<"port", "multiTenant", "ionApi">>)
    /\ \A i \in 1..Len(ServeAsked) : i > 1 => Answered(ServeAsked[i - 1])
    /\ Answered("multiTenant") =>
         (Asked("ionApi") <=> answers["multiTenant"] = Bool(TRUE))
    /\ Answered("ionApi") => Asked("ionApi")
    /\ PromptDone =>
         (Answered("ionApi") <=> answers["multiTenant"] = Bool(TRUE))

C6_Witness ==
  /\ ServeWizard /\ PromptDone /\ task = "wrapServe"
  /\ answers["multiTenant"] = Bool(FALSE)
  /\ ~Answered("ionApi")

ServeCalls == {i \in 1..Len(calls) : calls[i].fn = "serveProject"}
NewCalls == {i \in 1..Len(calls) : calls[i].fn = "newProject"}

\* C7: every ServeOptions handed to serveProject, from the flags or from the
\* wizard, has an integer port (8080 when none was supplied), never a string.
C7_PortIsInteger ==
  \A i \in ServeCalls :
    LET o == calls[i].args[1]
    IN /\ o.port.t = "number"
       /\ (argv.command = "serve" /\ argv.options.port.t = "undefined") => o.port.v = 8080

\* C8: in `odin serve`, the options dispatched have multiTenant true iff
\* --multi-tenant was given and ionApi true iff --ion-api was given, each on
\* its own; with no flag at all they are { port: 8080, multiTenant: false,
\* ionApi: false }.
C8_ServeFlagsIndependent ==
  argv.command = "serve" =>
    \A i \in ServeCalls :
      LET o == calls[i].args[1]
          f == argv.options
      IN /\ o.multiTenant = Bool(f.multiTenant.t = "boolean")
         /\ o.ionApi = Bool(f.ionApi.t = "boolean")
         /\ (f.port.t = "undefined" /\ f.multiTenant.t = "undefined"
               /\ f.ionApi.t = "undefined") =>
              /\ DOMAIN o = {"port", "multiTenant", "ionApi"}
              /\ o.port.t = "number" /\ o.port.v = 8080
              /\ o.multiTenant = Bool(FALSE)
              /\ o.ionApi = Bool(FALSE)

C8_Witness ==
  /\ argv.command = "serve"
  /\ argv.options.ionApi.t = "boolean"
  /\ argv.options.multiTenant.t = "undefined"
  /\ \E i \in ServeCalls :
       /\ calls[i].args[1].ionApi = Bool(TRUE)
       /\ calls[i].args[1].multiTenant = Bool(FALSE)

\* C9: in `odin new <name>`, the style handed to newProject is material if
\* --material is set, else soho if --soho is set, else none; with both flags
\* it is material.
C9_StyleFirstMatchWins ==
  DirectNew =>
    \A i \in NewCalls :
      LET style == calls[i].args[1].style
          material == argv.options.material.t = "boolean"
          soho == argv.options.soho.t = "boolean"
      IN /\ material => style = "material"
         /\ (~material /\ soho) => style = "soho"
         /\ (~material /\ ~soho) => style = "none"

C9_Witness ==
  /\ DirectNew
  /\ argv.options.material.t = "boolean" /\ argv.options.soho.t = "boolean"
  /\ \E i \in NewCalls : calls[i].args[1].style = "material"

\* C10: in `odin new <name>`, the options handed to newProject hold a proxy
\* field iff a proxy input was supplied; without one the field is absent.
C10_ProxyIffSupplied ==
  DirectNew =>
    \A i \in NewCalls :
      ("proxy" \in DOMAIN calls[i].args[1]) <=> (argv.options.proxy.t # "undefined")

\* C11: every name handed to newProject, from the positional argument or
\* from the wizard's name question, matches ^[a-zA-Z0-9-]+$ and is not the
\* name of an existing entry of the working directory.
C11_NameIsValidated ==
  \A i \in NewCalls :
    LET name == calls[i].args[1].name
    IN /\ name.t = "string"
       /\ matchesNamePattern(name.v)
       /\ ~existsSync(name.v, fs)

\* the lines that report a command's success
SuccessLines ==
  {Log("Done!"), Log("Project built successfully"),
   Log("Done! You can now start the development server with 'odin serve --multi-tenant'")}
SuccessPrinted == \E l \in SuccessLines : Printed(l)

\* C12: on every path, when a collaborator call has completed successfully a
\* fixed success message is printed, and none is printed while the call is
\* still pending.
C12_SuccessMessageAfterCompletion ==
  /\ \A i \in 1..Len(settled) : settled[i].ok => SuccessPrinted
  /\ pending # {} => ~SuccessPrinted

\* every answer the prompt has kept passed its question's validate
AnswersValid == \A q \in DOMAIN answers : validate(q, answers[q], fs) = "true"

\* a step in which a validator rejects an entry: the same question stays
\* current and its message is shown; nothing else moves
RejectionStep ==
  Len(rejections') > Len(rejections) =>
    LET r == rejections'[Len(rejections')]
    IN /\ r.question = prompt.questions[prompt.next]
       /\ r.question \in {"projectName", "proxy", "port"}
       /\ out' = Append(out, Line("stdout", ">>", r.message))
       /\ prompt' = prompt /\ answers' = answers /\ asked' = asked
       /\ calls' = calls /\ pending' = pending
       /\ pc' = pc /\ task' = task /\ exitCode' = exitCode

\* C13: in the wizard an entry rejected by a validator (name, proxy, port)
\* leaves the same question waiting with the returned message shown; no
\* rejected entry is kept as an answer, ends the process, moves to a later
\* question or reaches a collaborator.
C13_RejectedAnswerIsReasked == []AnswersValid /\ [][RejectionStep]_vars

C13_Witness ==
  /\ Len(rejections) = MaxRejected
  /\ task = "wrapNew"
  /\ AnswersValid

ExplicitCommand == argv.argc > 0 /\ argv.command \in KnownCommands
NewWithoutName == argv.command = "new" /\ ~Truthy(projectName)

\* C14 as stated: whenever the invocation names an explicit command, no
\* interactive question is asked during the run.
C14_DirectModeAsksNothing ==
  ExplicitCommand => (asked = <<>> /\ rejections = <<>>)

\* C14 amended: whenever the invocation names an explicit command, no
\* interactive question is asked during the run, except for `odin new`
\* without a (non-empty) project name, which asks the questions of the new
\* sequence, starting with the project name.
C14_DirectModeAsksNothingButNew ==
  ExplicitCommand =>
    IF NewWithoutName
    THEN pc \notin {"start", "parse"} =>
           (asked # <<>> /\ asked[1] = "projectName" /\ ~Asked("command"))
    ELSE asked = <<>> /\ rejections = <<>>

C14_Witness ==
  /\ DirectNew
  /\ argv.options.proxy.t = "string"
  /\ task = "wrapNew"
  /\ asked = <<>>

CommandChosen == "command" \in DOMAIN commandAnswers
OnlyCalls(fn) == \A i \in 1..Len(calls) : calls[i].fn = fn

\* C15: the command chooser is asked iff the process was started with no
\* argument; in that case no command handler of program.parse runs (nothing
\* is called, printed or asked before the choice), and the choice leads to
\* exactly its branch: the new sequence, the serve sequence, or buildProject.
C15_ChooserIffNoArguments ==
  /\ pc # "start" => (Asked("command") <=> argv.argc = 0)
  /\ (argv.argc = 0 /\ ~CommandChosen) =>
       /\ calls = <<>> /\ out = <<>> /\ ~Exited
       /\ prompt.questions \in {<<>>, <<"command">>}
  /\ (argv.argc = 0 /\ CommandChosen) =>
       CASE commandAnswers["command"] = "new" ->
              /\ prompt.questions[1] = "projectName"
              /\ OnlyCalls("newProject") /\ Len(calls) <= 1
         [] commandAnswers["command"] = "serve" ->
              /\ prompt.questions[1] = "port"
              /\ OnlyCalls("serveProject") /\ Len(calls) <= 1
         [] commandAnswers["command"] = "build" ->
              /\ prompt.questions = <<"command">>
              /\ asked = <<"command">>
              /\ OnlyCalls("buildProject") /\ Len(calls) = 1

C15_Witness ==
  /\ argv.argc = 0
  /\ CommandChosen
  /\ commandAnswers["command"] = "serve"
  /\ task = "wrapServe"

\* the collaborator calls made and not yet ended
InFlight == Len(calls) - Len(settled)

\* C16: in every run at most one collaborator call is in flight at any
\* moment, also when the un-awaited inquireCommand and program.parse both
\* run.
C16_OneCallInFlight == InFlight <= 1 /\ Cardinality(pending) = InFlight

C16_Witness ==
  /\ argv.argc = 0
  /\ pc = "returned"
  /\ CommandChosen
  /\ InFlight = 1

SixQuestions == <<"projectName", "framework", "style", "proxy", "git", "install">>
NewWizard == prompt.questions # <<>> /\ prompt.questions[1] = "projectName"
\* the questions of the new sequence displayed so far
NewAsked == SelectSeq(asked, LAMBDA q : q \in {SixQuestions[i] : i \in 1..6})

\* C17: the new wizard asks project name, framework, style, proxy URL, git,
\* install in that order, each once, skipping none, a question only after
\* the one before it was answered, and newProject is dispatched only after
\* all six are answered.
C17_NewWizardAsksAllSix ==
  NewWizard =>
    LET answered == IF PromptDone THEN Len(NewAsked) ELSE Len(NewAsked) - 1
    IN /\ NewAsked # <<>>
       /\ IsPrefix(NewAsked, SixQuestions)
       /\ DOMAIN answers = {SixQuestions[i] : i \in 1..answered}
       /\ PromptDone => NewAsked = SixQuestions
       /\ Invoked("newProject") => (PromptDone /\ Len(calls) = 1)

C17_Witness ==
  /\ NewWizard
  /\ task = "wrapNew"
  /\ NewAsked = SixQuestions
  /\ rejections # <<>>

\* C18: every NewProjectOptions handed to newProject, from the flags or from
\* the wizard, has a style that is one of none, material, soho.
C18_StyleAlwaysSet ==
  \A i \in NewCalls :
    /\ "style" \in DOMAIN calls[i].args[1]
    /\ calls[i].args[1].style \in {"none", "material", "soho"}

C18_Witness ==
  /\ NewWizard
  /\ \E i \in NewCalls : calls[i].args[1].style = "soho"

====
